---- MODULE Spec2Model ----
(***************************************************************************)
(* Model of monitor_writeup.py: one scheduled run of main() loads the      *)
(* previous snapshot from domain_status.json, checks DropCatch and WHOIS,  *)
(* compares, sends an e-mail, saves the new snapshot and prints it.        *)
(***************************************************************************)
EXTENDS Integers, Sequences, FiniteSets, TLC

VARIABLES
    file,            \* domain_status.json: [exists, text], text a JSON token sequence
    pc,              \* position of the current process in main()
    EMAIL_CONFIG,    \* the three os.getenv values read at import
    previous,        \* main: previous
    dropcatch_status,\* main: dropcatch_status
    whois_status,    \* main: whois_status
    current,         \* main: current
    changes,         \* main: changes (sequence of lines)
    critical_alert,  \* main: critical_alert
    subject,         \* main: subject handed to send_simple_email
    email_calls,     \* number of calls of send_simple_email in this run
    email_result,    \* what send_simple_email returned in this run
    smtp_log,        \* SMTP operations attempted in this run, in order
    stdout,          \* the kinds of line printed in this run
    clock,           \* the wall clock read by datetime.now()
    runs,            \* number of processes started so far
    dc_response,     \* what requests.get gave check_dropcatch_status in this run
    whois_response,  \* what requests.get gave check_whois_status in this run
    last_dc_response,    \* the same, of the run before
    last_whois_response, \* the same, of the run before
    last_saved       \* whether the run before reached save_current_status

vars == <<file, pc, EMAIL_CONFIG, previous, dropcatch_status, whois_status,
          current, changes, critical_alert, subject, email_calls,
          email_result, smtp_log, stdout, clock, runs, dc_response,
          whois_response, last_dc_response, last_whois_response, last_saved>>

----------------------------------------------------------------------------
(* Bounds *)

MaxRuns == 2
MaxBodyLen == 3

(* Program constants *)

HTTP_OK == 200
DOMAIN_NAME == "writeup.ai"

----------------------------------------------------------------------------
(* Python values: None, str, bool and dict.  A dict is the sequence of its *)
(* <<key, value>> pairs in insertion order, keys unique.                   *)

None == [ty |-> "none", v |-> ""]
Str(s) == [ty |-> "str", v |-> s]
Bool(b) == [ty |-> "bool", v |-> b]
Dict(pairs) == [ty |-> "dict", v |-> pairs]
EmptyDict == Dict(<<>>)

\* Python ==: values of different types are unequal.
PyEq(a, b) == a.ty = b.ty /\ a.v = b.v

\* Python truthiness, as all([...]) applies it.
Truthy(a) ==
    CASE a.ty = "none" -> FALSE
      [] a.ty = "str"  -> a.v /= ""
      [] a.ty = "bool" -> a.v
      [] a.ty = "dict" -> Len(a.v) > 0

\* str(x) / f"{x}" of a None or a str.
Format(a) == IF a.ty = "none" THEN "None" ELSE a.v

HasKey(d, k) == \E i \in 1..Len(d.v) : d.v[i][1] = k

\* dict.get(k, default)
Get(d, k, default) ==
    IF HasKey(d, k)
    THEN d.v[CHOOSE i \in 1..Len(d.v) : d.v[i][1] = k][2]
    ELSE default

\* The outcome of a call: a returned value or a raised exception.
Ret(val) == [exc |-> FALSE, val |-> val, msg |-> ""]
Raise(m) == [exc |-> TRUE, val |-> None, msg |-> m]

----------------------------------------------------------------------------
(* JSON text, as a sequence of lexical tokens.                             *)

Tok(t, s) == [t |-> t, s |-> s]

RECURSIVE json_dump(_)
RECURSIVE dump_members(_)
dump_members(pairs) ==
    IF Len(pairs) = 0 THEN <<>>
    ELSE <<Tok("str", pairs[1][1]), Tok(":", "")>> \o json_dump(pairs[1][2])
         \o (IF Len(pairs) > 1 THEN <<Tok(",", "")>> ELSE <<>>)
         \o dump_members(Tail(pairs))

json_dump(val) ==
    CASE val.ty = "none" -> <<Tok("null", "")>>
      [] val.ty = "str"  -> <<Tok("str", val.v)>>
      [] val.ty = "bool" -> <<Tok(IF val.v THEN "true" ELSE "false", "")>>
      [] val.ty = "dict" -> <<Tok("{", "")>> \o dump_members(val.v) \o <<Tok("}", "")>>

ParseFail == [ok |-> FALSE, val |-> None, rest |-> <<>>]
ParseOk(val, rest) == [ok |-> TRUE, val |-> val, rest |-> rest]

\* A later duplicate of a key replaces the earlier value, as json.load does.
PutKey(pairs, k, val) ==
    IF \E i \in 1..Len(pairs) : pairs[i][1] = k
    THEN [i \in 1..Len(pairs) |-> IF pairs[i][1] = k THEN <<k, val>> ELSE pairs[i]]
    ELSE Append(pairs, <<k, val>>)

RECURSIVE ParseValue(_)
RECURSIVE ParseMembers(_, _)
\* after "{" or ",": a key, ":", a value, then "," or "}".
ParseMembers(toks, acc) ==
    IF Len(toks) < 2 \/ toks[1].t /= "str" \/ toks[2].t /= ":" THEN ParseFail
    ELSE LET r == ParseValue(SubSeq(toks, 3, Len(toks))) IN
         IF ~r.ok \/ Len(r.rest) = 0 THEN ParseFail
         ELSE LET acc2 == PutKey(acc, toks[1].s, r.val) IN
              CASE r.rest[1].t = "}" -> ParseOk(Dict(acc2), Tail(r.rest))
                [] r.rest[1].t = "," -> ParseMembers(Tail(r.rest), acc2)
                [] OTHER -> ParseFail

ParseValue(toks) ==
    IF Len(toks) = 0 THEN ParseFail
    ELSE CASE toks[1].t = "str"   -> ParseOk(Str(toks[1].s), Tail(toks))
           [] toks[1].t = "null"  -> ParseOk(None, Tail(toks))
           [] toks[1].t = "true"  -> ParseOk(Bool(TRUE), Tail(toks))
           [] toks[1].t = "false" -> ParseOk(Bool(FALSE), Tail(toks))
           [] toks[1].t = "{" ->
                IF Len(toks) >= 2 /\ toks[2].t = "}"
                THEN ParseOk(EmptyDict, SubSeq(toks, 3, Len(toks)))
                ELSE ParseMembers(Tail(toks), <<>>)
           [] OTHER -> ParseFail

\* json.load: the whole text must be one value, else JSONDecodeError.
json_load(toks) ==
    LET r == ParseValue(toks) IN
    IF r.ok /\ Len(r.rest) = 0 THEN Ret(r.val) ELSE Raise("JSONDecodeError")

----------------------------------------------------------------------------
(* HTTP.  A page body is a sequence of text fragments; a keyword is a      *)
(* sequence of fragments and occurs in a body as a contiguous run.         *)

HttpResponse(code, body) == [kind |-> "http", code |-> code, body |-> body, msg |-> ""]
TransportError(m) == [kind |-> "exc", code |-> 0, body |-> <<>>, msg |-> m]
NoResponse == [kind |-> "none", code |-> 0, body |-> <<>>, msg |-> ""]

\* str.lower() on one fragment
LowerFragment(t) ==
    CASE t = "BackOrder"     -> "backorder"
      [] t = "Place A "      -> "place a "
      [] t = "Not Found"     -> "not found"
      [] t = "PendingDelete" -> "pendingdelete"
      [] t = "Active"        -> "active"
      [] OTHER -> t

lower(body) == [i \in 1..Len(body) |-> LowerFragment(body[i])]

\* kw in content
Contains(content, kw) ==
    \E i \in 1..(Len(content) - Len(kw) + 1) :
        SubSeq(content, i, i + Len(kw) - 1) = kw

KwBackorder == <<"backorder">>
KwPlaceABackorder == <<"place a ", "backorder">>
KwNoResults == <<"no results">>
KwNotFound == <<"not found">>
KwAuction == <<"auction">>
KwPendingdelete == <<"pendingdelete">>
KwPendingSpaceDelete == <<"pending ", "delete">>
KwRedemption == <<"redemption">>
KwExpired == <<"expired">>
KwActive == <<"active">>

\* datetime.isoformat()
isoformat(t) == "T" \o ToString(t)

\* faulty variant: the auction rule tried before the not-found rule
dropcatch_try_auction_first(response) ==
    IF response.kind = "exc" THEN Raise(response.msg)
    ELSE IF response.code = HTTP_OK
    THEN LET content == lower(response.body) IN
         IF Contains(content, KwBackorder) /\ Contains(content, KwPlaceABackorder)
         THEN Ret(Str("AVAILABLE_FOR_BACKORDER"))
         ELSE IF Contains(content, KwAuction)
         THEN Ret(Str("IN_AUCTION"))
         ELSE IF Contains(content, KwNoResults) \/ Contains(content, KwNotFound)
         THEN Ret(Str("NOT_AVAILABLE_YET"))
         ELSE Ret(Str("UNKNOWN_STATUS"))
    ELSE Ret(Str("ERROR_" \o ToString(response.code)))

\* lines 33-46: the body of the try block of check_dropcatch_status
dropcatch_try(response) ==
    IF response.kind = "exc" THEN Raise(response.msg)
    ELSE IF response.code = HTTP_OK
    THEN LET content == lower(response.body) IN
         IF Contains(content, KwBackorder) /\ Contains(content, KwPlaceABackorder)
         THEN Ret(Str("AVAILABLE_FOR_BACKORDER"))
         ELSE IF Contains(content, KwNoResults) \/ Contains(content, KwNotFound)
         THEN Ret(Str("NOT_AVAILABLE_YET"))
         ELSE IF Contains(content, KwAuction)
         THEN Ret(Str("IN_AUCTION"))
         ELSE Ret(Str("UNKNOWN_STATUS"))
    ELSE Ret(Str("ERROR_" \o ToString(response.code)))

check_dropcatch_status(response) ==
    LET r == dropcatch_try(response) IN
    IF r.exc THEN Ret(Str("ERROR: " \o r.msg)) ELSE r

\* lines 59-81: the body of the try block of check_whois_status
whois_try(response, now) ==
    IF response.kind = "exc" THEN Raise(response.msg)
    ELSE IF response.code = HTTP_OK
    THEN LET content == lower(response.body)
             status ==
                 IF Contains(content, KwPendingdelete) \/ Contains(content, KwPendingSpaceDelete)
                 THEN "pendingDelete"
                 ELSE IF Contains(content, KwRedemption) THEN "redemptionPeriod"
                 ELSE IF Contains(content, KwExpired) THEN "expired"
                 ELSE IF Contains(content, KwActive) THEN "active"
                 ELSE "unknown"
         IN Ret(Dict(<< <<"status", Str(status)>>,
                        <<"checked_at", Str(isoformat(now))>>,
                        <<"source", Str("whois.net")>> >>))
    ELSE Ret(Dict(<< <<"error", Str("HTTP " \o ToString(response.code))>> >>))

\* faulty variant: no except clause, the transport exception propagates
check_whois_status_no_except(response, now) == whois_try(response, now)

check_whois_status(response, now) ==
    LET r == whois_try(response, now) IN
    IF r.exc THEN Ret(Dict(<< <<"error", Str(r.msg)>> >>)) ELSE r

----------------------------------------------------------------------------
(* E-mail *)

SmtpSteps == <<"connect", "starttls", "login", "sendmail", "quit">>

\* the SMTP calls made when call number failAt raises (0: none does), each
\* with whether it raised
SmtpAttempted(failAt) ==
    [i \in 1..(IF failAt = 0 THEN Len(SmtpSteps) ELSE failAt) |->
        [op |-> SmtpSteps[i], raised |-> (i = failAt)]]

\* faulty variant: any() in place of all()
config_complete_any(config) ==
    Truthy(config.sender_email) \/ Truthy(config.sender_password)
        \/ Truthy(config.recipient)

\* line 89
config_complete(config) ==
    Truthy(config.sender_email) /\ Truthy(config.sender_password)
        /\ Truthy(config.recipient)

\* lines 89-117: the body of the try block of send_simple_email; the message
\* text (lines 94-102) has no part in the outcome and is left out
email_try(config, failAt) ==
    IF ~config_complete(config)
    THEN [res |-> Ret(Bool(FALSE)), log |-> <<>>, out |-> {"Email configuration missing"}]
    ELSE IF failAt = 0
    THEN [res |-> Ret(Bool(TRUE)), log |-> SmtpAttempted(0), out |-> {"Email sent"}]
    ELSE [res |-> Raise("SMTPException"), log |-> SmtpAttempted(failAt), out |-> {}]

\* faulty variant: no except clause, an SMTP error propagates
send_simple_email_no_except(config, failAt) == email_try(config, failAt)

send_simple_email(config, failAt) ==
    LET r == email_try(config, failAt) IN
    IF r.res.exc
    THEN [res |-> Ret(Bool(FALSE)), log |-> r.log, out |-> r.out \cup {"Failed to send email"}]
    ELSE r

----------------------------------------------------------------------------
(* Status store *)

AbsentFile == [exists |-> FALSE, text |-> <<>>]
FileWith(text) == [exists |-> TRUE, text |-> text]

\* faulty variant: malformed JSON caught like a missing file
load_previous_status_lenient(f) ==
    IF ~f.exists \/ json_load(f.text).exc THEN Ret(EmptyDict) ELSE json_load(f.text)

load_previous_status(f) ==
    IF ~f.exists THEN Ret(EmptyDict)     \* except FileNotFoundError
    ELSE json_load(f.text)

save_current_status(status_data) == FileWith(json_dump(status_data))

----------------------------------------------------------------------------
(* main *)

\* what lines 157-167 build from the three comparisons' outcomes
change_report(prev, dc, whois, dcChanged, whoisChanged, dcCritical, whoisCritical) ==
    LET dcLine == "DropCatch: " \o Format(Get(prev, "dropcatch", Str("unknown")))
                      \o " -> " \o Format(dc)
        old_status == Get(Get(prev, "whois", EmptyDict), "status", Str("unknown"))
        new_status == Get(whois, "status", Str("unknown"))
        whoisLine == "WHOIS: " \o Format(old_status) \o " -> " \o Format(new_status)
    IN [changes |-> (IF dcChanged THEN <<dcLine>> ELSE <<>>)
                        \o (IF whoisChanged THEN <<whoisLine>> ELSE <<>>),
        critical |-> dcCritical \/ whoisCritical]

\* faulty variant: the old WHOIS status read with the 'unknown' default in the test
detect_changes_default_in_test(prev, dc, whois) ==
    LET dcChanged == ~PyEq(Get(prev, "dropcatch", None), dc)
        whoisChanged ==
            ~PyEq(Get(Get(prev, "whois", EmptyDict), "status", Str("unknown")),
                  Get(whois, "status", None))
        new_status == Get(whois, "status", Str("unknown"))
    IN change_report(prev, dc, whois, dcChanged, whoisChanged,
           dcChanged /\ PyEq(dc, Str("AVAILABLE_FOR_BACKORDER")),
           whoisChanged /\ new_status.v \in {"pendingDelete", "expired"})

\* faulty variant: the whole whois entries compared, checked_at included
detect_changes_whole_whois(prev, dc, whois) ==
    LET dcChanged == ~PyEq(Get(prev, "dropcatch", None), dc)
        whoisChanged == ~PyEq(Get(prev, "whois", EmptyDict), whois)
        new_status == Get(whois, "status", Str("unknown"))
    IN change_report(prev, dc, whois, dcChanged, whoisChanged,
           dcChanged /\ PyEq(dc, Str("AVAILABLE_FOR_BACKORDER")),
           whoisChanged /\ new_status.v \in {"pendingDelete", "expired"})

\* faulty variant: the critical tests outside the "changed" branches
detect_changes_critical_unnested(prev, dc, whois) ==
    LET dcChanged == ~PyEq(Get(prev, "dropcatch", None), dc)
        whoisChanged ==
            ~PyEq(Get(Get(prev, "whois", EmptyDict), "status", None),
                  Get(whois, "status", None))
        new_status == Get(whois, "status", Str("unknown"))
    IN change_report(prev, dc, whois, dcChanged, whoisChanged,
           PyEq(dc, Str("AVAILABLE_FOR_BACKORDER")),
           new_status.v \in {"pendingDelete", "expired"})

\* lines 154-167: the change list and the critical flag
detect_changes(prev, dc, whois) ==
    LET dcChanged == ~PyEq(Get(prev, "dropcatch", None), dc)
        whoisChanged ==
            ~PyEq(Get(Get(prev, "whois", EmptyDict), "status", None),
                  Get(whois, "status", None))
        new_status == Get(whois, "status", Str("unknown"))
    IN change_report(prev, dc, whois, dcChanged, whoisChanged,
           dcChanged /\ PyEq(dc, Str("AVAILABLE_FOR_BACKORDER")),
           whoisChanged /\ new_status.v \in {"pendingDelete", "expired"})

\* faulty variant: the guard without "or True"
send_guard_changes_only(chg) == Len(chg) > 0

\* line 170: if changes or True
send_guard(chg) == Len(chg) > 0 \/ TRUE

\* lines 171-172
make_subject(critical) ==
    (IF critical THEN "URGENT" ELSE "Update") \o ": " \o DOMAIN_NAME \o " Status Change!"

\* faulty variant: the timestamp left out of the snapshot
make_current_no_timestamp(now, dc, whois) ==
    Dict(<< <<"dropcatch", dc>>, <<"whois", whois>> >>)

\* lines 147-151
make_current(now, dc, whois) ==
    Dict(<< <<"timestamp", Str(isoformat(now))>>, <<"dropcatch", dc>>, <<"whois", whois>> >>)

----------------------------------------------------------------------------
(* The environment of a run *)

EnvValues == {None, Str("set")}

DcPages ==
    { HttpResponse(200, <<"Place A ", "backorder">>),
      HttpResponse(200, <<"not found">>),
      HttpResponse(200, <<"auction">>),
      HttpResponse(404, <<"not found">>),
      TransportError("timed out") }

WhoisPages ==
    { HttpResponse(200, <<"PendingDelete">>),
      HttpResponse(200, <<"expired">>),
      HttpResponse(200, <<"active">>),
      HttpResponse(200, <<>>),
      HttpResponse(503, <<"active">>),
      TransportError("timed out") }

ScenarioASnapshot == Dict(<< <<"dropcatch", Str("NOT_AVAILABLE_YET")>> >>)

EarlierSnapshot ==
    make_current(0, Str("NOT_AVAILABLE_YET"),
                 check_whois_status(HttpResponse(200, <<"active">>), 0).val)

ValidTexts == {json_dump(ScenarioASnapshot), json_dump(EarlierSnapshot)}

\* a write cut short leaves a proper prefix of the text (the empty file included)
TruncatedTexts == {SubSeq(t, 1, n) : n \in {0, 1, 4}, t \in ValidTexts}

InitialFiles == {AbsentFile} \cup {FileWith(t) : t \in ValidTexts \cup TruncatedTexts}

----------------------------------------------------------------------------

RunLocalsReset ==
    /\ dropcatch_status' = None
    /\ whois_status' = None
    /\ current' = None
    /\ changes' = <<>>
    /\ critical_alert' = FALSE
    /\ subject' = ""
    /\ email_calls' = 0
    /\ email_result' = None
    /\ smtp_log' = <<>>

Init ==
    /\ file \in InitialFiles
    /\ pc = "idle"
    /\ EMAIL_CONFIG = [sender_email |-> None, sender_password |-> None, recipient |-> None]
    /\ previous = None
    /\ dropcatch_status = None
    /\ whois_status = None
    /\ current = None
    /\ changes = <<>>
    /\ critical_alert = FALSE
    /\ subject = ""
    /\ email_calls = 0
    /\ email_result = None
    /\ smtp_log = <<>>
    /\ stdout = {}
    /\ clock = 1
    /\ runs = 0
    /\ dc_response = NoResponse
    /\ whois_response = NoResponse
    /\ last_dc_response = NoResponse
    /\ last_whois_response = NoResponse
    /\ last_saved = FALSE

\* The scheduler starts a process: import (lines 17-23), line 138, line 141.
Start ==
    /\ pc \in {"idle", "done", "crashed"}
    /\ runs < MaxRuns
    /\ runs' = runs + 1
    /\ \E se \in EnvValues, sp \in EnvValues, rc \in EnvValues :
          EMAIL_CONFIG' = [sender_email |-> se, sender_password |-> sp, recipient |-> rc]
    /\ clock' = clock + 1
    /\ stdout' = {"Checking"}
    /\ LET r == load_previous_status(file) IN
          /\ pc' = IF r.exc THEN "crashed" ELSE "loaded"
          /\ previous' = r.val
    /\ RunLocalsReset
    /\ last_dc_response' = dc_response
    /\ last_whois_response' = whois_response
    /\ last_saved' = (pc = "done")
    /\ dc_response' = NoResponse
    /\ whois_response' = NoResponse
    /\ UNCHANGED file

\* line 144
CheckDropcatch ==
    /\ pc = "loaded"
    /\ \E resp \in DcPages :
          LET r == check_dropcatch_status(resp) IN
          /\ dc_response' = resp
          /\ pc' = IF r.exc THEN "crashed" ELSE "dropcatch_checked"
          /\ dropcatch_status' = r.val
    /\ UNCHANGED <<file, EMAIL_CONFIG, previous, whois_status, current, changes,
                   critical_alert, subject, email_calls, email_result, smtp_log,
                   stdout, clock, runs, whois_response, last_dc_response,
                   last_whois_response, last_saved>>

\* line 145
CheckWhois ==
    /\ pc = "dropcatch_checked"
    /\ \E resp \in WhoisPages :
          LET r == check_whois_status(resp, clock) IN
          /\ whois_response' = resp
          /\ pc' = IF r.exc THEN "crashed" ELSE "whois_checked"
          /\ whois_status' = r.val
          /\ clock' = IF resp.kind = "http" /\ resp.code = HTTP_OK THEN clock + 1 ELSE clock
    /\ UNCHANGED <<file, EMAIL_CONFIG, previous, dropcatch_status, current, changes,
                   critical_alert, subject, email_calls, email_result, smtp_log,
                   stdout, runs, dc_response, last_dc_response,
                   last_whois_response, last_saved>>

\* lines 147-167; .get on anything but a dict raises AttributeError
Compare ==
    /\ pc = "whois_checked"
    /\ current' = make_current(clock, dropcatch_status, whois_status)
    /\ clock' = clock + 1
    /\ IF previous.ty /= "dict" \/ Get(previous, "whois", EmptyDict).ty /= "dict"
       THEN /\ pc' = "crashed"
            /\ UNCHANGED <<changes, critical_alert>>
       ELSE LET d == detect_changes(previous, dropcatch_status, whois_status) IN
            /\ pc' = "compared"
            /\ changes' = d.changes
            /\ critical_alert' = d.critical
    /\ UNCHANGED <<file, EMAIL_CONFIG, previous, dropcatch_status, whois_status,
                   subject, email_calls, email_result, smtp_log, stdout, runs,
                   dc_response, whois_response, last_dc_response,
                   last_whois_response, last_saved>>

\* lines 169-195
Notify ==
    /\ pc = "compared"
    /\ IF send_guard(changes)
       THEN \E failAt \in 0..Len(SmtpSteps) :
              LET r == send_simple_email(EMAIL_CONFIG, failAt) IN
              /\ subject' = make_subject(critical_alert)
              /\ clock' = clock + 1
              /\ email_calls' = email_calls + 1
              /\ smtp_log' = r.log
              /\ stdout' = stdout \cup r.out
              /\ email_result' = r.res.val
              /\ pc' = IF r.res.exc THEN "crashed" ELSE "notified"
       ELSE /\ stdout' = stdout \cup {"No changes detected"}
            /\ pc' = "notified"
            /\ UNCHANGED <<subject, clock, email_calls, smtp_log, email_result>>
    /\ UNCHANGED <<file, EMAIL_CONFIG, previous, dropcatch_status, whois_status,
                   current, changes, critical_alert, runs, dc_response,
                   whois_response, last_dc_response, last_whois_response, last_saved>>

\* line 198
Save ==
    /\ pc = "notified"
    /\ file' = save_current_status(current)
    /\ pc' = "saved"
    /\ UNCHANGED <<EMAIL_CONFIG, previous, dropcatch_status, whois_status, current,
                   changes, critical_alert, subject, email_calls, email_result,
                   smtp_log, stdout, clock, runs, dc_response, whois_response,
                   last_dc_response, last_whois_response, last_saved>>

\* lines 201-204
PrintStatus ==
    /\ pc = "saved"
    /\ stdout' = stdout \cup {"Current Status"}
    /\ pc' = "done"
    /\ UNCHANGED <<file, EMAIL_CONFIG, previous, dropcatch_status, whois_status,
                   current, changes, critical_alert, subject, email_calls,
                   email_result, smtp_log, clock, runs, dc_response,
                   whois_response, last_dc_response, last_whois_response, last_saved>>

Next == Start \/ CheckDropcatch \/ CheckWhois \/ Compare \/ Notify \/ Save \/ PrintStatus

Spec == Init /\ [][Next]_vars

----------------------------------------------------------------------------
(* check_dropcatch_status on its own, over every bounded page *)

DcFragments ==
    {"place a ", "Place A ", "backorder", "no results", "not found", "auction", "zz"}
StatusCodes == {200, 404, 503}

Bodies == UNION {[1..n -> DcFragments] : n \in 0..MaxBodyLen}

InitClassify ==
    /\ dc_response \in {HttpResponse(c, b) : c \in StatusCodes, b \in Bodies}
                           \cup {TransportError("timed out")}
    /\ pc = "classify"
    /\ file = AbsentFile
    /\ EMAIL_CONFIG = [sender_email |-> None, sender_password |-> None, recipient |-> None]
    /\ previous = None
    /\ dropcatch_status = None
    /\ whois_status = None
    /\ current = None
    /\ changes = <<>>
    /\ critical_alert = FALSE
    /\ subject = ""
    /\ email_calls = 0
    /\ email_result = None
    /\ smtp_log = <<>>
    /\ stdout = {}
    /\ clock = 1
    /\ runs = 0
    /\ whois_response = NoResponse
    /\ last_dc_response = NoResponse
    /\ last_whois_response = NoResponse
    /\ last_saved = FALSE

\* line 144, on the response drawn
Classify ==
    /\ pc = "classify"
    /\ LET r == check_dropcatch_status(dc_response) IN
          /\ pc' = IF r.exc THEN "crashed" ELSE "classified"
          /\ dropcatch_status' = r.val
    /\ UNCHANGED <<file, EMAIL_CONFIG, previous, whois_status, current, changes,
                   critical_alert, subject, email_calls, email_result, smtp_log,
                   stdout, clock, runs, dc_response, whois_response,
                   last_dc_response, last_whois_response, last_saved>>

SpecClassify == InitClassify /\ [][Classify]_vars

----------------------------------------------------------------------------
(* Properties *)

AfterCompare == {"compared", "notified", "saved", "done"}
AfterNotify == {"notified", "saved", "done"}
AfterSave == {"saved", "done"}
BeforeSave == {"loaded", "dropcatch_checked", "whois_checked", "compared", "notified"}

Lines(seq) == {seq[i] : i \in 1..Len(seq)}

\* the snapshot on disk, parsed
Persisted == json_load(file.text).val

SmtpRaised == Len(smtp_log) > 0 /\ smtp_log[Len(smtp_log)].raised

\* the step of main that follows the current one can be taken
RunGoesOn ==
    CASE pc = "loaded"            -> ENABLED CheckDropcatch
      [] pc = "dropcatch_checked" -> ENABLED CheckWhois
      [] pc = "whois_checked"     -> ENABLED Compare
      [] pc = "compared"          -> ENABLED Notify
      [] pc = "notified"          -> ENABLED Save
      [] pc = "saved"             -> ENABLED PrintStatus
      [] OTHER -> pc = "done"

\* the run wrote the snapshot it computed from this run's two results
SavedThisRun ==
    /\ file = FileWith(json_dump(current))
    /\ PyEq(Get(current, "dropcatch", None), dropcatch_status)
    /\ PyEq(Get(current, "whois", None), whois_status)

\* C1: a transport exception in either checker's HTTP call is returned as data
\* ('ERROR: <message>' for DropCatch, a mapping holding only 'error' for
\* WHOIS) and never propagates: the run is never aborted, every later step of
\* main stays possible, and a finished run has written the status file.
C1_TransportErrorsAreData ==
    /\ dc_response.kind = "exc" =>
          /\ PyEq(dropcatch_status, Str("ERROR: " \o dc_response.msg))
          /\ RunGoesOn
          /\ pc \in AfterSave => SavedThisRun
    /\ whois_response.kind = "exc" =>
          /\ PyEq(whois_status, Dict(<< <<"error", Str(whois_response.msg)>> >>))
          /\ RunGoesOn
          /\ pc \in AfterSave => SavedThisRun

C1_Witness ==
    /\ pc = "done"
    /\ dc_response.kind = "exc"
    /\ whois_response.kind = "exc"
    /\ SavedThisRun

C3_SmtpFailureDoesNotAbort ==
    SmtpRaised =>
        /\ pc \in AfterNotify
        /\ PyEq(email_result, Bool(FALSE))
        /\ "Failed to send email" \in stdout
        /\ RunGoesOn
        /\ pc \in AfterSave => SavedThisRun

C3_Witness ==
    /\ pc = "done"
    /\ SmtpRaised
    /\ smtp_log[Len(smtp_log)].op = "quit"
    /\ SavedThisRun

AnyUnset ==
    \/ EMAIL_CONFIG.sender_email = None
    \/ EMAIL_CONFIG.sender_password = None
    \/ EMAIL_CONFIG.recipient = None

\* C4: with any of SENDER_EMAIL, SENDER_PASSWORD, RECIPIENT_EMAIL unset,
\* send_simple_email returns False with no SMTP call attempted, and the rest
\* of the run (persistence, printout) still completes.
C4_NoSmtpWithoutConfig ==
    (AnyUnset /\ pc \in AfterNotify) =>
        /\ email_calls = 1
        /\ smtp_log = <<>>
        /\ PyEq(email_result, Bool(FALSE))
        /\ RunGoesOn
        /\ pc \in AfterSave => SavedThisRun
        /\ pc = "done" => "Current Status" \in stdout

C4_Witness ==
    /\ pc = "done"
    /\ EMAIL_CONFIG.sender_email /= None
    /\ EMAIL_CONFIG.sender_password /= None
    /\ EMAIL_CONFIG.recipient = None
    /\ smtp_log = <<>>
    /\ "Current Status" \in stdout

\* this run follows a run that saved, and both pages answered as they did then
SameAsLastRun ==
    /\ last_saved
    /\ dc_response = last_dc_response
    /\ whois_response = last_whois_response

\* C5: in the second of two consecutive runs given the same two responses,
\* no change is detected, and the dropcatch and whois.status it persists equal
\* those the first run persisted (which the second run loaded).
C5_Idempotent ==
    (SameAsLastRun /\ pc \in AfterCompare) =>
        /\ changes = <<>>
        /\ pc \in AfterSave =>
              /\ PyEq(Get(Persisted, "dropcatch", None), Get(previous, "dropcatch", None))
              /\ PyEq(Get(Get(Persisted, "whois", EmptyDict), "status", None),
                      Get(Get(previous, "whois", EmptyDict), "status", None))

C5_Witness ==
    /\ SameAsLastRun
    /\ pc = "done"
    /\ HasKey(whois_status, "status")
    /\ Get(Persisted, "timestamp", None) /= Get(previous, "timestamp", None)


OldDropcatch == Get(previous, "dropcatch", None)
OldWhoisStatus == Get(Get(previous, "whois", EmptyDict), "status", None)
NewWhoisStatus == Get(whois_status, "status", None)

\* the value a change line shows: 'unknown' for one that is missing
Shown(a) == IF a = None THEN "unknown" ELSE a.v

DropcatchLine == "DropCatch: " \o Shown(OldDropcatch) \o " -> " \o dropcatch_status.v
WhoisLine == "WHOIS: " \o Shown(OldWhoisStatus) \o " -> " \o Shown(NewWhoisStatus)

\* C6: the change list holds the 'DropCatch: <old> -> <new>' line exactly
\* when the new dropcatch value differs from the persisted one, the
\* 'WHOIS: <old> -> <new>' line exactly when the new whois.status differs from
\* the persisted one, and no other line: no other field causes one. Previous
\* {"dropcatch": "NOT_AVAILABLE_YET"} and new AVAILABLE_FOR_BACKORDER give
\* 'DropCatch: NOT_AVAILABLE_YET -> AVAILABLE_FOR_BACKORDER'.
C6_ChangeLines ==
    pc \in AfterCompare =>
        /\ changes = (IF OldDropcatch /= dropcatch_status THEN <<DropcatchLine>> ELSE <<>>)
                     \o (IF OldWhoisStatus /= NewWhoisStatus THEN <<WhoisLine>> ELSE <<>>)
        /\ (previous = ScenarioASnapshot
              /\ dropcatch_status = Str("AVAILABLE_FOR_BACKORDER")) =>
                 "DropCatch: NOT_AVAILABLE_YET -> AVAILABLE_FOR_BACKORDER" \in Lines(changes)

C6_Witness ==
    /\ pc = "compared"
    /\ OldDropcatch = dropcatch_status
    /\ OldWhoisStatus = NewWhoisStatus
    /\ NewWhoisStatus /= None
    /\ Get(Get(previous, "whois", EmptyDict), "checked_at", None)
          /= Get(whois_status, "checked_at", None)
    /\ changes = <<>>

\* C7: the critical flag is true exactly when, in this run, dropcatch changed
\* to AVAILABLE_FOR_BACKORDER or whois.status changed to pendingDelete or
\* expired; the subject then starts with URGENT, and with Update otherwise.
C7_CriticalFlag ==
    /\ pc \in AfterCompare =>
          (critical_alert <=>
              \/ /\ OldDropcatch /= dropcatch_status
                 /\ dropcatch_status = Str("AVAILABLE_FOR_BACKORDER")
              \/ /\ OldWhoisStatus /= NewWhoisStatus
                 /\ NewWhoisStatus \in {Str("pendingDelete"), Str("expired")})
    /\ pc \in AfterNotify =>
          subject = IF critical_alert THEN "URGENT: writeup.ai Status Change!"
                    ELSE "Update: writeup.ai Status Change!"

\* an unchanged AVAILABLE_FOR_BACKORDER is kept while whois.status turns expired
C7_Witness ==
    /\ pc = "notified"
    /\ critical_alert
    /\ OldDropcatch = dropcatch_status
    /\ dropcatch_status = Str("AVAILABLE_FOR_BACKORDER")
    /\ OldWhoisStatus = Str("active")
    /\ NewWhoisStatus = Str("expired")
    /\ subject = "URGENT: writeup.ai Status Change!"

HasKeyword(body, kw) == Contains(lower(body), kw)

\* C8: check_dropcatch_status classifies by first matching rule: on HTTP 200,
\* a lower-cased body holding "backorder" and "place a backorder" gives
\* AVAILABLE_FOR_BACKORDER whatever else it holds; otherwise "no results" or
\* "not found" gives NOT_AVAILABLE_YET; otherwise "auction" gives IN_AUCTION;
\* otherwise UNKNOWN_STATUS; any other status code C gives ERROR_C whatever
\* the body holds.
C8_FirstMatchingRule ==
    (pc = "classified" /\ dc_response.kind = "http") =>
        LET b == dc_response.body
            backorder == HasKeyword(b, KwBackorder) /\ HasKeyword(b, KwPlaceABackorder)
            notFound == HasKeyword(b, KwNoResults) \/ HasKeyword(b, KwNotFound)
            auction == HasKeyword(b, KwAuction)
        IN  IF dc_response.code /= 200
            THEN dropcatch_status.v =
                    (CASE dc_response.code = 404 -> "ERROR_404"
                       [] dc_response.code = 503 -> "ERROR_503")
            ELSE /\ backorder => dropcatch_status.v = "AVAILABLE_FOR_BACKORDER"
                 /\ (~backorder /\ notFound) => dropcatch_status.v = "NOT_AVAILABLE_YET"
                 /\ (~backorder /\ ~notFound /\ auction) => dropcatch_status.v = "IN_AUCTION"
                 /\ (~backorder /\ ~notFound /\ ~auction) =>
                        dropcatch_status.v = "UNKNOWN_STATUS"

C8_Witness ==
    /\ pc = "classified"
    /\ dc_response.code = 200
    /\ dc_response.body = <<"Place A ", "backorder", "not found">>
    /\ dropcatch_status = Str("AVAILABLE_FOR_BACKORDER")

IsStr(a) == a.ty = "str"
Keys(d) == {d.v[i][1] : i \in 1..Len(d.v)}

\* C9 as claimed: a status file the program wrote holds a timestamp string, a
\* dropcatch string and, when it holds a whois entry, one with status,
\* checked_at and source - also after a run whose WHOIS check failed.
C9_SchemaAsClaimed ==
    pc \in AfterSave =>
        /\ ~json_load(file.text).exc
        /\ Persisted.ty = "dict"
        /\ IsStr(Get(Persisted, "timestamp", None))
        /\ IsStr(Get(Persisted, "dropcatch", None))
        /\ HasKey(Persisted, "whois") =>
              /\ Get(Persisted, "whois", None).ty = "dict"
              /\ {"status", "checked_at", "source"} \subseteq Keys(Get(Persisted, "whois", None))

\* C9 as amended: a status file the program wrote holds a timestamp string, a
\* dropcatch string and a whois entry that is an object holding status,
\* checked_at and source (all strings) after a successful WHOIS check, and
\* holding only error (a string) after a failed one.
C9_SchemaWithErrorShape ==
    pc \in AfterSave =>
        /\ ~json_load(file.text).exc
        /\ Persisted.ty = "dict"
        /\ Keys(Persisted) = {"timestamp", "dropcatch", "whois"}
        /\ IsStr(Get(Persisted, "timestamp", None))
        /\ IsStr(Get(Persisted, "dropcatch", None))
        /\ LET w == Get(Persisted, "whois", None) IN
              /\ w.ty = "dict"
              /\ \A k \in Keys(w) : IsStr(Get(w, k, None))
              /\ IF whois_response.kind = "http" /\ whois_response.code = 200
                 THEN Keys(w) = {"status", "checked_at", "source"}
                 ELSE Keys(w) = {"error"}

C9_Witness ==
    /\ pc = "saved"
    /\ whois_response.kind = "exc"
    /\ Keys(Get(Persisted, "whois", EmptyDict)) = {"error"}

\* C10: every run of main that gets past loading the previous status calls
\* send_simple_email exactly once, also with an empty change list, and never
\* takes the 'No changes detected' branch.
C10_AlwaysNotifies ==
    /\ pc \in AfterNotify => email_calls = 1
    /\ pc \in BeforeSave \ {"notified"} => email_calls = 0
    /\ "No changes detected" \notin stdout

C10_Witness ==
    /\ pc = "notified"
    /\ changes = <<>>
    /\ email_calls = 1
    /\ Len(smtp_log) = Len(SmtpSteps)
    /\ ~SmtpRaised

====
